---- MODULE Spec2Model ----
(***************************************************************************)
(* Release orchestration of src/action.py: the dispatch on the trigger     *)
(* event, the pull-request and tag-push handlers, the three validation     *)
(* checks and the four forge requests.                                     *)
(*                                                                         *)
(* Strings are sequences of one-character strings, so that lstrip, replace *)
(* and the semantic-version parser are computed rather than assumed.       *)
(* Python's None is the value None below.                                  *)
(***************************************************************************)
EXTENDS Integers, Sequences, FiniteSets, TLC

\* ------------------------------------------------------------------ bounds
\* Largest major/minor/patch number of the version strings of SpecVersion.
MaxNum == 1

\* Number of invocations run one after the other against the same forge.
MaxRuns == 2

\* ------------------------------------------------------------ string basics
None == <<"<None>">>

\* Python truthiness of an optional string: None and "" are falsy.
Truthy(s) == s # None /\ s # <<>>

\* The element of a one-element set. { e(x) : x \in {v} } computes v once,
\* however often e uses it.
Only(S) == CHOOSE x \in S : TRUE

\* str.lstrip(c) for a one-character c: every leading c is removed.
RECURSIVE LStrip(_, _)
LStrip(s, c) ==
    IF s # <<>> /\ Head(s) = c THEN LStrip(Tail(s), c) ELSE s

\* Index of the first occurrence of c in s, 0 when there is none.
IndexOf(s, c) ==
    IF \E i \in 1..Len(s) : s[i] = c
    THEN CHOOSE i \in 1..Len(s) : s[i] = c /\ \A j \in 1..(i - 1) : s[j] # c
    ELSE 0

\* str.split(sep): the pieces between the separators ("" splits to [""]).
RECURSIVE Split(_, _)
Split(s, sep) ==
    Only({ IF i = 0 THEN <<t>>
           ELSE <<SubSeq(t, 1, i - 1)>>
                    \o Split(SubSeq(t, i + 1, Len(t)), sep) :
               <<t, i>> \in {<<s, IndexOf(s, sep)>>} })

\* The characters of the class [0-9a-zA-Z-], in code-point order.
Alnum ==
    <<"-", "0", "1", "2", "3", "4", "5", "6", "7", "8", "9",
      "A", "B", "C", "D", "E", "F", "G", "H", "I", "J", "K", "L", "M",
      "N", "O", "P", "Q", "R", "S", "T", "U", "V", "W", "X", "Y", "Z",
      "a", "b", "c", "d", "e", "f", "g", "h", "i", "j", "k", "l", "m",
      "n", "o", "p", "q", "r", "s", "t", "u", "v", "w", "x", "y", "z">>

Digits == <<"0", "1", "2", "3", "4", "5", "6", "7", "8", "9">>

\* U+0661 ARABIC-INDIC DIGIT ONE, standing for the decimal digits beyond
\* ASCII: \d of a str pattern matches it and int() reads it as 1.
ArabicIndicOne == "<U+0661>"

\* The class [0-9].
IsDigit(c) == \E i \in 1..Len(Digits) : Digits[i] = c

\* The class \d.
IsDecimal(c) == IsDigit(c) \/ c = ArabicIndicOne

IsAlnum(c) == \E i \in 1..Len(Alnum) : Alnum[i] = c

\* The class [a-zA-Z-].
IsLetterOrHyphen(c) == IsAlnum(c) /\ ~IsDigit(c)

\* Position of a character in code-point order.
CharOrd(c) ==
    IF c = ArabicIndicOne THEN Len(Alnum) + 1
    ELSE CHOOSE i \in 1..Len(Alnum) : Alnum[i] = c

DigitVal(c) ==
    IF c = ArabicIndicOne THEN 1
    ELSE (CHOOSE i \in 1..Len(Digits) : Digits[i] = c) - 1

\* The pattern ^\d+$ on a string without line feed.
AllDigits(s) == s # <<>> /\ \A i \in 1..Len(s) : IsDecimal(s[i])

\* int(text) of a string of digits.
RECURSIVE ToInt(_)
ToInt(s) ==
    IF s = <<>> THEN 0
    ELSE 10 * ToInt(SubSeq(s, 1, Len(s) - 1)) + DigitVal(s[Len(s)])

\* Decimal rendering of a number below 100.
NumStr(n) ==
    IF n < 10 THEN <<Digits[n + 1]>>
    ELSE <<Digits[(n \div 10) + 1], Digits[(n % 10) + 1]>>

\* cmp(a, b) of two numbers: -1, 0 or 1.
CmpInt(a, b) == IF a < b THEN -1 ELSE IF a > b THEN 1 ELSE 0

\* cmp(a, b) of two strings of Alnum characters, by code point.
RECURSIVE CmpStr(_, _)
CmpStr(a, b) ==
    IF a = <<>> /\ b = <<>> THEN 0
    ELSE IF a = <<>> THEN -1
    ELSE IF b = <<>> THEN 1
    ELSE IF CharOrd(Head(a)) # CharOrd(Head(b))
         THEN CmpInt(CharOrd(Head(a)), CharOrd(Head(b)))
    ELSE CmpStr(Tail(a), Tail(b))

\* ------------------------------------------------- semver.VersionInfo.parse
\* major, minor, patch: 0|[1-9]\d*
NumericId(s) ==
    /\ AllDigits(s)
    /\ s = <<"0">> \/ (IsDigit(s[1]) /\ s[1] # "0")

\* A pre-release identifier: 0|[1-9]\d*|\d*[a-zA-Z-][0-9a-zA-Z-]*
PrereleaseId(s) ==
    \/ NumericId(s)
    \/ \E k \in 1..Len(s) :
        /\ \A j \in 1..(k - 1) : IsDecimal(s[j])
        /\ IsLetterOrHyphen(s[k])
        /\ \A j \in (k + 1)..Len(s) : IsAlnum(s[j])

\* A build identifier: [0-9a-zA-Z-]+
BuildId(s) == s # <<>> /\ \A i \in 1..Len(s) : IsAlnum(s[i])

InvalidParse ==
    [ok |-> FALSE, major |-> 0, minor |-> 0, patch |-> 0,
     prerelease |-> None, build |-> None]

\* The three parts of a version string: the build follows the first "+",
\* the pre-release the first "-" before it; an absent part is None.
VersionParts(s) ==
    LET p    == IndexOf(s, "+")
        head == IF p = 0 THEN s ELSE SubSeq(s, 1, p - 1)
        q    == IndexOf(head, "-")
    IN  [core       |-> IF q = 0 THEN head ELSE SubSeq(head, 1, q - 1),
         prerelease |-> IF q = 0 THEN None
                        ELSE SubSeq(head, q + 1, Len(head)),
         build      |-> IF p = 0 THEN None ELSE SubSeq(s, p + 1, Len(s))]

\* The text the version pattern is matched against: its closing $ matches
\* at the end of the string and before a line feed that ends the string.
BeforeFinalNewline(s) ==
    IF s # <<>> /\ s[Len(s)] = "\n" THEN SubSeq(s, 1, Len(s) - 1) ELSE s

\* VersionInfo.parse(s): the parsed version, or ok = FALSE for ValueError.
Parse(s) ==
    Only({ LET nums  == Split(parts.core, ".")
               pre   == Split(parts.prerelease, ".")
               build == Split(parts.build, ".")
               valid ==
                   /\ Len(nums) = 3
                   /\ \A i \in 1..3 : NumericId(nums[i])
                   /\ parts.prerelease # None =>
                          \A i \in 1..Len(pre) : PrereleaseId(pre[i])
                   /\ parts.build # None =>
                          \A i \in 1..Len(build) : BuildId(build[i])
           IN  IF valid
               THEN [ok |-> TRUE, major |-> ToInt(nums[1]),
                     minor |-> ToInt(nums[2]), patch |-> ToInt(nums[3]),
                     prerelease |-> parts.prerelease, build |-> parts.build]
               ELSE InvalidParse :
                   parts \in {VersionParts(BeforeFinalNewline(s))} })

\* --------------------------------------------------- VersionInfo comparison
\* cmp_prerelease_tag: numbers before strings, numbers by value, strings by
\* code point.
CmpPrereleaseTag(a, b) ==
    IF AllDigits(a) /\ AllDigits(b) THEN CmpInt(ToInt(a), ToInt(b))
    ELSE IF AllDigits(a) THEN -1
    ELSE IF AllDigits(b) THEN 1
    ELSE CmpStr(a, b)

RECURSIVE CmpParts(_, _, _, _)
CmpParts(pa, pb, la, lb) ==
    IF pa = <<>> \/ pb = <<>> THEN CmpInt(la, lb)
    ELSE IF CmpPrereleaseTag(Head(pa), Head(pb)) # 0
         THEN CmpPrereleaseTag(Head(pa), Head(pb))
    ELSE CmpParts(Tail(pa), Tail(pb), la, lb)

\* _nat_cmp(a, b) of two optional pre-release strings.
NatCmp(a, b) ==
    LET sa == IF a = None THEN <<>> ELSE a
        sb == IF b = None THEN <<>> ELSE b
    IN  CmpParts(Split(sa, "."), Split(sb, "."), Len(sa), Len(sb))

\* VersionInfo.compare: (major, minor, patch), then the pre-release; the
\* build is not compared.
Compare(v, w) ==
    IF v.major # w.major THEN CmpInt(v.major, w.major)
    ELSE IF v.minor # w.minor THEN CmpInt(v.minor, w.minor)
    ELSE IF v.patch # w.patch THEN CmpInt(v.patch, w.patch)
    ELSE IF NatCmp(v.prerelease, w.prerelease) = 0 THEN 0
    ELSE IF ~Truthy(v.prerelease) THEN 1
    ELSE IF ~Truthy(w.prerelease) THEN -1
    ELSE NatCmp(v.prerelease, w.prerelease)

\* ------------------------------------------------------------ the process
VARIABLES
    event,          \* GITHUB_EVENT_NAME
    pr_version,     \* environment variable pr_version, or None
    main_version,   \* environment variable main_version, or None
    pr_number,      \* environment variable PR_NUMBER, or None
    github_ref,     \* GITHUB_REF, or None
    handler,        \* the handler main selected, "none" before the dispatch
    ip,             \* index of the handler's next statement
    outcome,        \* "Running", "Done" (returned) or "Aborted" (exited early)
    reason,         \* why the run was aborted, "" otherwise
    exit_code,      \* the process exit code, -1 while running
    new_version,    \* the candidate version the handler works on
    old_version,    \* the baseline version the handler compares against
    pr_num,         \* the pull request to merge, as it is put in the URL
    calls,          \* the checks and forge requests made so far in this run
    releases,       \* the forge: tags of the releases it holds, oldest first
    run             \* number of the current invocation

vars ==
    <<event, pr_version, main_version, pr_number, github_ref, handler, ip,
      outcome, reason, exit_code, new_version, old_version, pr_num, calls,
      releases, run>>

inputs == <<event, pr_version, main_version, pr_number, github_ref>>

\* HTTP statuses the code tests for.
StatusOK == 200

StatusCreated == 201

StatusNotFound == 404

\* Statuses of refused or failed requests.
ErrorStatuses == {422, 500}

TagPrefix == "refs/tags/"

\* --- the statements of the two handlers, in program order
\* Variants of handle_pull_request: the merge moved before the style check,
\* the release created before the merge, the metadata check made first.
HandlePullRequestBody_MergeBeforeStyle ==
    <<"check_params", "validate_version", "validate_library_metadata",
      "merge_pr", "validate_code_style", "create_release">>

HandlePullRequestBody_ReleaseBeforeMerge ==
    <<"check_params", "validate_version", "validate_library_metadata",
      "validate_code_style", "create_release", "merge_pr">>

HandlePullRequestBody_MetadataFirst ==
    <<"check_params", "validate_library_metadata", "validate_version",
      "validate_code_style", "merge_pr", "create_release">>

HandlePullRequestBody ==
    <<"check_params", "validate_version", "validate_library_metadata",
      "validate_code_style", "merge_pr", "create_release">>

\* Variant of handle_tag_push: the release created before the merge.
HandleTagPushBody_ReleaseBeforeMerge ==
    <<"check_ref", "get_latest_release_version", "validate_version",
      "validate_library_metadata", "validate_code_style", "create_pr",
      "create_release", "merge_pr">>

HandleTagPushBody ==
    <<"check_ref", "get_latest_release_version", "validate_version",
      "validate_library_metadata", "validate_code_style", "create_pr",
      "merge_pr", "create_release">>

Body(h) ==
    IF h = "handle_pull_request" THEN HandlePullRequestBody
    ELSE IF h = "handle_tag_push" THEN HandleTagPushBody
    ELSE <<>>

\* The statement the run is at.
Stmt ==
    IF outcome = "Running" /\ handler # "none" THEN Body(handler)[ip]
    ELSE "none"

\* Variant of main: every event but pull_request is handled as a push.
Dispatch_DefaultPush(e) ==
    IF e = "pull_request" THEN "handle_pull_request" ELSE "handle_tag_push"

\* main: the handler of an event kind.
Dispatch(e) ==
    IF e = "pull_request" THEN "handle_pull_request"
    ELSE IF e = "push" THEN "handle_tag_push"
    ELSE "none"

\* --- decisions of the code, as functions of what they test
\* Variant of the parameter test: PR_NUMBER is not required.
ParamsPresent_IgnoresNumber(pv, mv, pn) == Truthy(pv) /\ Truthy(mv)

\* all([pr_version, main_version, pr_number])
ParamsPresent(pv, mv, pn) == Truthy(pv) /\ Truthy(mv) /\ Truthy(pn)

\* Variant of the tag test: any ref that is set counts as a tag ref.
IsTagRef_AnyRef(ref) == Truthy(ref)

\* GITHUB_REF and GITHUB_REF.startswith('refs/tags/')
IsTagRef(ref) == Truthy(ref) /\ Head(ref) = TagPrefix

\* GITHUB_REF.replace('refs/tags/', '')
TagOfRef(ref) == SelectSeq(ref, LAMBDA c : c # TagPrefix)

\* Variant of validate_version: an equal version is let through.
VersionCheck_AllowsEqual(new, old) ==
    LET new_v == Parse(LStrip(new, "v"))
        old_v == Parse(LStrip(old, "v"))
    IN  IF ~new_v.ok \/ ~old_v.ok THEN "InvalidVersion"
        ELSE IF Compare(new_v, old_v) < 0 THEN "VersionNotAdvanced"
        ELSE "ok"

\* validate_version: "ok", or the failure it exits on.
VersionCheck(new, old) ==
    Only({ IF ~new_v.ok \/ ~old_v.ok THEN "InvalidVersion"
           ELSE IF Compare(new_v, old_v) <= 0 THEN "VersionNotAdvanced"
           ELSE "ok" :
               new_v \in {Parse(LStrip(new, "v"))},
               old_v \in {Parse(LStrip(old, "v"))} })

\* validate_version's warning: the candidate parses and is a pre-release.
PrereleaseWarning(new, old) ==
    /\ Parse(LStrip(new, "v")).ok
    /\ Parse(LStrip(old, "v")).ok
    /\ Parse(LStrip(new, "v")).prerelease # None

\* Variant of get_latest_release_version: 404 is an error like any other.
LatestReleaseVersion_No404(status, tag_name) ==
    IF status >= 400 THEN None ELSE tag_name

\* Variant of get_latest_release_version: every error answer gives 0.0.0.
LatestReleaseVersion_ErrorsAsSentinel(status, tag_name) ==
    IF status >= 400 THEN <<"0", ".", "0", ".", "0">> ELSE tag_name

\* get_latest_release_version: the version returned, or None when the answer
\* makes raise_for_status raise.
LatestReleaseVersion(status, tag_name) ==
    IF status = StatusNotFound THEN <<"0", ".", "0", ".", "0">>
    ELSE IF status >= 400 THEN None
    ELSE tag_name

\* Variants of create_pr: every refusal is fatal; a duplicate is taken for
\* a created pull request.
CreatePrResult_DuplicateFatal(status, duplicate) ==
    IF status = StatusCreated THEN "created" ELSE "PrCreateFailed"

CreatePrResult_DuplicateReused(status, duplicate) ==
    IF status = StatusCreated \/ duplicate THEN "created"
    ELSE "PrCreateFailed"

\* create_pr: "created", "PrExists" (exit 0) or "PrCreateFailed" (exit 1).
CreatePrResult(status, duplicate) ==
    IF status = StatusCreated THEN "created"
    ELSE IF duplicate THEN "PrExists"
    ELSE "PrCreateFailed"

\* Variant of merge_pr: any 2xx answer counts as merged.
MergeOk_Any2xx(status) == status >= 200 /\ status < 300

\* merge_pr: the answer that counts as merged.
MergeOk(status) == status = StatusOK

\* Variant of create_release: any 2xx answer counts as published.
ReleaseOk_Any2xx(status) == status >= 200 /\ status < 300

\* create_release: the answer that counts as published.
ReleaseOk(status) == status = StatusCreated

\* create_release: the tag of the release requested for a version.
ReleaseTag(version) == <<"v">> \o LStrip(version, "v")

\* Variant of create_release: the release is never marked prerelease.
ReleasePrerelease_Never(version) == FALSE

\* create_release: the prerelease flag of the request.
ReleasePrerelease(version) == Parse(LStrip(version, "v")).prerelease # None

\* ------------------------------------------------------------------ inputs
\* A version string: leading v's, three numbers, a suffix.
Ver(prefix, a, b, c, suffix) ==
    prefix \o NumStr(a) \o <<".">> \o NumStr(b) \o <<".">> \o NumStr(c) \o suffix

\* The version strings the invocations are run on.
RunVersions ==
    { Ver(<<>>, 0, 0, 0, <<>>),
      Ver(<<>>, 1, 0, 0, <<>>),
      Ver(<<"v">>, 1, 1, 0, <<>>),
      Ver(<<>>, 1, 1, 0, <<"-", "r", "c">>),
      Ver(<<"v", "v">>, 1, 0, 0, <<>>),
      Ver(<<>>, 1, 1, 0, <<"\n">>),
      <<"1", ".", "0">> }

\* GITHUB_REF of a pull-request event and of a branch push.
PullRef == <<"refs/pull/", "7", "/merge">>

BranchRef == <<"refs/heads/", "x">>

\* The trigger parameters of one invocation: one variant is populated.
Invocations ==
    { [event |-> "pull_request", pr_version |-> pv, main_version |-> mv,
       pr_number |-> pn, github_ref |-> PullRef] :
         pv \in RunVersions \cup {None, <<>>},
         mv \in RunVersions \cup {None, <<>>},
         pn \in {None, <<>>, <<"7">>} }
    \cup
    { [event |-> "push", pr_version |-> None, main_version |-> None,
       pr_number |-> None, github_ref |-> r] :
         r \in {<<TagPrefix>> \o v : v \in RunVersions} \cup {BranchRef, None} }
    \cup
    { [event |-> "workflow_dispatch", pr_version |-> None,
       main_version |-> None, pr_number |-> None, github_ref |-> BranchRef] }

\* The numbers the forge gives the pull requests it opens.
ForgePrNumbers == {8, 9}

\* The statuses the forge answers a request with.
AnswerStatuses == {StatusOK, StatusCreated} \cup ErrorStatuses

\* ------------------------------------------------------------- transitions
\* flag: the pre-release warning of validate_version, the prerelease field
\* of the create_release request, FALSE for the other calls.
CallF(op, arg, status, out, ret, flag) ==
    [op |-> op, arg |-> arg, status |-> status, out |-> out, ret |-> ret,
     flag |-> flag]

Call(op, arg, status, out, ret) == CallF(op, arg, status, out, ret, FALSE)

\* The statement completed: on to the next one, or the handler and main
\* return and the process ends with exit code 0.
Proceed ==
    IF ip < Len(Body(handler))
    THEN ip' = ip + 1 /\ UNCHANGED <<outcome, reason, exit_code>>
    ELSE ip' = ip /\ outcome' = "Done" /\ reason' = "" /\ exit_code' = 0

\* return before the end of the handler.
Return ==
    ip' = ip /\ outcome' = "Done" /\ reason' = "" /\ exit_code' = 0

\* sys.exit(code), or an uncaught exception (code 1).
Exit(code, why) ==
    ip' = ip /\ outcome' = "Aborted" /\ reason' = why /\ exit_code' = code

Init ==
    /\ \E i \in Invocations :
        /\ event = i.event
        /\ pr_version = i.pr_version
        /\ main_version = i.main_version
        /\ pr_number = i.pr_number
        /\ github_ref = i.github_ref
    /\ handler = "none"
    /\ ip = 0
    /\ outcome = "Running"
    /\ reason = ""
    /\ exit_code = -1
    /\ new_version = None
    /\ old_version = None
    /\ pr_num = None
    /\ calls = <<>>
    /\ releases = <<>>
    /\ run = 1

\* main: select the handler, or warn and return on an unsupported event.
Main ==
    /\ outcome = "Running"
    /\ handler = "none"
    /\ IF Dispatch(event) = "none"
       THEN Return /\ UNCHANGED handler
       ELSE /\ handler' = Dispatch(event)
            /\ ip' = 1
            /\ UNCHANGED <<outcome, reason, exit_code>>
    /\ UNCHANGED <<inputs, new_version, old_version, pr_num, calls, releases,
                   run>>

\* handle_pull_request, lines 137-143: read and require the parameters.
CheckParams ==
    /\ Stmt = "check_params"
    /\ IF ParamsPresent(pr_version, main_version, pr_number)
       THEN /\ new_version' = pr_version
            /\ old_version' = main_version
            /\ pr_num' = pr_number
            /\ Proceed
       ELSE /\ Exit(1, "MissingParameters")
            /\ UNCHANGED <<new_version, old_version, pr_num>>
    /\ UNCHANGED <<inputs, handler, calls, releases, run>>

\* handle_tag_push, lines 156-161: skip a push that is not a tag push.
CheckRef ==
    /\ Stmt = "check_ref"
    /\ IF IsTagRef(github_ref)
       THEN new_version' = TagOfRef(github_ref) /\ Proceed
       ELSE Return /\ UNCHANGED new_version
    /\ UNCHANGED <<inputs, handler, old_version, pr_num, calls, releases, run>>

\* get_latest_release_version: the forge answers 404 when it holds no
\* release, 200 with the tag of its latest release, or an error.
GetLatestReleaseVersion ==
    /\ Stmt = "get_latest_release_version"
    /\ \E status \in {IF releases = <<>> THEN StatusNotFound ELSE StatusOK}
                        \cup ErrorStatuses :
        LET tag_name == IF releases = <<>> THEN <<>>
                        ELSE releases[Len(releases)]
            v == LatestReleaseVersion(status, tag_name)
        IN  IF v = None
            THEN /\ calls' = Append(calls,
                        Call("get_latest_release_version", <<>>, status,
                             "ForgeRequestFailed", <<>>))
                 /\ Exit(1, "ForgeRequestFailed")
                 /\ UNCHANGED old_version
            ELSE /\ calls' = Append(calls,
                        Call("get_latest_release_version", <<>>, status,
                             "ok", v))
                 /\ old_version' = v
                 /\ Proceed
    /\ UNCHANGED <<inputs, handler, new_version, pr_num, releases, run>>

\* validate_version(new_version, old_version)
ValidateVersion ==
    /\ Stmt = "validate_version"
    /\ LET r == VersionCheck(new_version, old_version)
       IN  /\ calls' = Append(calls,
                  CallF("validate_version", new_version, 0, r, <<>>,
                        PrereleaseWarning(new_version, old_version)))
           /\ IF r = "ok" THEN Proceed ELSE Exit(1, r)
    /\ UNCHANGED <<inputs, handler, new_version, old_version, pr_num,
                   releases, run>>

\* validate_library_metadata: library.properties exists or not.
ValidateLibraryMetadata ==
    /\ Stmt = "validate_library_metadata"
    /\ \E exists \in BOOLEAN :
        LET r == IF exists THEN "ok" ELSE "MissingMetadata"
        IN  /\ calls' = Append(calls,
                   Call("validate_library_metadata", <<>>, 0, r, <<>>))
            /\ IF exists THEN Proceed ELSE Exit(1, r)
    /\ UNCHANGED <<inputs, handler, new_version, old_version, pr_num,
                   releases, run>>

\* validate_code_style: arduino-lint exits with 0 or not.
ValidateCodeStyle ==
    /\ Stmt = "validate_code_style"
    /\ \E passed \in BOOLEAN :
        LET r == IF passed THEN "ok" ELSE "StyleViolation"
        IN  /\ calls' = Append(calls,
                   Call("validate_code_style", <<>>, 0, r, <<>>))
            /\ IF passed THEN Proceed ELSE Exit(1, r)
    /\ UNCHANGED <<inputs, handler, new_version, old_version, pr_num,
                   releases, run>>

\* create_pr(new_tag): a 201 answer carries the number of the new pull
\* request, any other answer a text that names a duplicate or not. The call
\* record keeps the forge's answer: "ok", "duplicate" or "other".
CreatePr ==
    /\ Stmt = "create_pr"
    /\ \E status \in AnswerStatuses, duplicate \in BOOLEAN,
          number \in ForgePrNumbers :
        /\ status = StatusCreated => ~duplicate
        /\ status # StatusCreated => number = 8
        /\ LET r == CreatePrResult(status, duplicate)
               answer == IF status = StatusCreated THEN "ok"
                         ELSE IF duplicate THEN "duplicate" ELSE "other"
           IN  /\ calls' = Append(calls,
                      Call("create_pr", new_version, status, answer,
                           IF status = StatusCreated THEN NumStr(number)
                           ELSE <<>>))
               /\ IF r = "created"
                  THEN pr_num' = NumStr(number) /\ Proceed
                  ELSE /\ Exit(IF r = "PrExists" THEN 0 ELSE 1, r)
                       /\ UNCHANGED pr_num
    /\ UNCHANGED <<inputs, handler, new_version, old_version, releases, run>>

\* merge_pr(pr_number)
MergePr ==
    /\ Stmt = "merge_pr"
    /\ \E status \in AnswerStatuses :
        /\ calls' = Append(calls,
               Call("merge_pr", pr_num, status,
                    IF MergeOk(status) THEN "ok" ELSE "MergeFailed", <<>>))
        /\ IF MergeOk(status) THEN Proceed ELSE Exit(1, "MergeFailed")
    /\ UNCHANGED <<inputs, handler, new_version, old_version, pr_num,
                   releases, run>>

\* create_release(version): the forge creates the release and answers 201
\* unless it already holds a release of that tag.
CreateRelease ==
    /\ Stmt = "create_release"
    /\ \E status \in AnswerStatuses :
        LET tag == ReleaseTag(new_version)
            held == \E i \in 1..Len(releases) : releases[i] = tag
        IN  /\ status = StatusCreated => ~held
            /\ calls' = Append(calls,
                   CallF("create_release", tag, status,
                         IF ReleaseOk(status) THEN "ok" ELSE "PublishFailed",
                         <<>>, ReleasePrerelease(new_version)))
            /\ releases' = IF status = StatusCreated
                           THEN Append(releases, tag) ELSE releases
            /\ IF ReleaseOk(status) THEN Proceed ELSE Exit(1, "PublishFailed")
    /\ UNCHANGED <<inputs, handler, new_version, old_version, pr_num, run>>

\* The next trigger starts a new process against the same forge.
NewInvocation ==
    /\ outcome # "Running"
    /\ run < MaxRuns
    /\ run' = run + 1
    /\ \E i \in Invocations :
        /\ event' = i.event
        /\ pr_version' = i.pr_version
        /\ main_version' = i.main_version
        /\ pr_number' = i.pr_number
        /\ github_ref' = i.github_ref
    /\ handler' = "none"
    /\ ip' = 0
    /\ outcome' = "Running"
    /\ reason' = ""
    /\ exit_code' = -1
    /\ new_version' = None
    /\ old_version' = None
    /\ pr_num' = None
    /\ calls' = <<>>
    /\ UNCHANGED releases

Next ==
    \/ Main
    \/ CheckParams
    \/ CheckRef
    \/ GetLatestReleaseVersion
    \/ ValidateVersion
    \/ ValidateLibraryMetadata
    \/ ValidateCodeStyle
    \/ CreatePr
    \/ MergePr
    \/ CreateRelease
    \/ NewInvocation

Spec == Init /\ [][Next]_vars

\* ------------------------------------------- the version check on its own
\* The version strings the version check is run on: every triple of numbers
\* up to MaxNum, with and without leading v's, pre-release and build, and
\* strings that single out one rule of the parser or of the precedence.
Prefixes == {<<>>, <<"v">>, <<"v", "v">>}

Suffixes == {<<>>, <<"-", "r", "c">>, <<"+", "b">>}

VersionStrings ==
    { Ver(pf, a, b, c, sf) :
        pf \in Prefixes, a \in 0..MaxNum, b \in 0..MaxNum, c \in 0..MaxNum,
        sf \in Suffixes }
    \cup
    { Ver(<<>>, 1, 10, 0, <<>>),
      Ver(<<>>, 1, 9, 0, <<>>),
      Ver(<<>>, 1, 0, 0, <<"-", "r", "c", ".", "1">>),
      Ver(<<>>, 1, 0, 0, <<"-", "2">>),
      Ver(<<>>, 1, 0, 0, <<"-", "1", "0">>),
      Ver(<<>>, 1, 0, 0, <<"-", "0", "1">>),
      Ver(<<>>, 1, 0, 0, <<"-">>),
      Ver(<<>>, 1, 0, 0, <<".", "0">>),
      Ver(<<"0">>, 1, 0, 0, <<>>),
      Ver(<<"x">>, 1, 0, 0, <<>>),
      <<"1", ".", "0">>,
      <<"v">>,
      <<"r", "c">>,
      Ver(<<>>, 1, 0, 0, <<"-", "b", "e", "t", "a">>),
      Ver(<<>>, 1, 0, 0, <<"-", "a", "l", "p", "h", "a", ".", "1">>),
      Ver(<<>>, 1, 0, 0, <<"-", "R", "C", "1">>),
      Ver(<<>>, 1, 0, 0, <<"+", "b", "u", "i", "l", "d", "5">>),
      Ver(<<>>, 1, 0, 0, <<"\n">>),
      Ver(<<>>, 1, 0, 0, <<"-", "r", "c", "\n">>),
      Ver(<<>>, 1, 0, 0, <<"\n", "\n">>),
      Ver(<<"\n">>, 1, 0, 0, <<>>),
      Ver(<<>>, 1, 0, 0, <<" ">>),
      <<"1", ArabicIndicOne, ".", "0", ".", "0">>,
      <<ArabicIndicOne, ".", "0", ".", "0">> }

\* The handler has reached the version check: handle_pull_request with its
\* two parameters, or handle_tag_push about to ask the forge for the latest
\* release, the forge holding none or one.
InitVersion ==
    /\ \E a \in VersionStrings :
        \/ \E b \in VersionStrings :
            /\ event = "pull_request"
            /\ pr_version = a
            /\ main_version = b
            /\ pr_number = <<"7">>
            /\ github_ref = PullRef
            /\ handler = "handle_pull_request"
            /\ new_version = a
            /\ old_version = b
            /\ pr_num = <<"7">>
            /\ releases = <<>>
        \/ \E held \in {<<>>, <<ReleaseTag(Ver(<<>>, 0, 0, 1, <<>>))>>} :
            /\ event = "push"
            /\ pr_version = None
            /\ main_version = None
            /\ pr_number = None
            /\ github_ref = <<TagPrefix>> \o a
            /\ handler = "handle_tag_push"
            /\ new_version = a
            /\ old_version = None
            /\ pr_num = None
            /\ releases = held
    /\ ip = 2
    /\ outcome = "Running"
    /\ reason = ""
    /\ exit_code = -1
    /\ calls = <<>>
    /\ run = 1

NextVersion ==
    \/ GetLatestReleaseVersion
    \/ ValidateVersion

SpecVersion == InitVersion /\ [][NextVersion]_vars

\* ------------------------------------------------- reading the call record
Checks ==
    {"validate_version", "validate_library_metadata", "validate_code_style"}

Mutations == {"create_pr", "merge_pr", "create_release"}

ValidationFailures ==
    {"InvalidVersion", "VersionNotAdvanced", "MissingMetadata",
     "StyleViolation"}

\* The operations of the run so far, in the order they were made.
Ops == [i \in 1..Len(calls) |-> calls[i].op]

Count(op) == Cardinality({i \in 1..Len(calls) : calls[i].op = op})

Requested(op) == Count(op) > 0

\* The check or request op was made before position i and succeeded.
OkBefore(op, i) ==
    \E j \in 1..(i - 1) : calls[j].op = op /\ calls[j].out = "ok"

\* Every check and request of the run so far succeeded.
AllOk == \A i \in 1..Len(calls) : calls[i].out = "ok"

IsPrefix(s, t) == Len(s) <= Len(t) /\ s = SubSeq(t, 1, Len(s))

Terminated == outcome # "Running"

\* C1: a forge mutation (open, merge, publish) is requested only after the
\* version, metadata and style checks have all passed earlier in the same
\* invocation, on both paths; a run aborted by a failed check has requested
\* no mutation.
C1_MutationsOnlyAfterValidation ==
    /\ \A i \in 1..Len(calls) :
        calls[i].op \in Mutations => \A c \in Checks : OkBefore(c, i)
    /\ \A i \in 1..Len(calls) :
        (calls[i].op \in Checks /\ calls[i].out # "ok") =>
            /\ outcome = "Aborted"
            /\ exit_code # 0
            /\ \A m \in Mutations : ~Requested(m)

C1_Witness ==
    /\ handler = "handle_tag_push"
    /\ Requested("create_pr")
    /\ \A c \in Checks : OkBefore(c, Len(calls))

\* C2: on the pull-request path with the three parameters present, while
\* every check and request succeeds the operations made are a prefix of
\* version check, metadata check, style check, merge, publish; the run that
\* ends that way has merged the given pull request once, then published once,
\* opened no pull request, and is Done with exit code 0.
PullRequestSequence ==
    <<"validate_version", "validate_library_metadata", "validate_code_style",
      "merge_pr", "create_release">>

C2_PullRequestMergeThenPublish ==
    (handler = "handle_pull_request" /\ AllOk
        /\ ParamsPresent(pr_version, main_version, pr_number)) =>
        /\ IsPrefix(Ops, PullRequestSequence)
        /\ Terminated =>
            /\ Ops = PullRequestSequence
            /\ calls[4].arg = pr_number
            /\ calls[4].status = 200
            /\ calls[5].status = 201
            /\ Count("merge_pr") = 1
            /\ Count("create_release") = 1
            /\ Count("create_pr") = 0
            /\ outcome = "Done"
            /\ exit_code = 0

C2_Witness ==
    /\ handler = "handle_pull_request"
    /\ outcome = "Done"
    /\ Ops = PullRequestSequence

\* C3: on the tag-push path with a tag ref, while every step succeeds the
\* operations made are a prefix of latest-release query, version check,
\* metadata check, style check, open, merge, publish; the run that ends that
\* way has made each once, merged the pull request that the open returned,
\* published the version of the pushed tag, and is Done with exit code 0.
TagPushSequence ==
    <<"get_latest_release_version", "validate_version",
      "validate_library_metadata", "validate_code_style", "create_pr",
      "merge_pr", "create_release">>

C3_TagPushSequence ==
    (handler = "handle_tag_push" /\ AllOk /\ IsTagRef(github_ref)) =>
        /\ IsPrefix(Ops, TagPushSequence)
        /\ Terminated =>
            /\ Ops = TagPushSequence
            /\ \A op \in {TagPushSequence[i] : i \in 1..7} : Count(op) = 1
            /\ calls[2].arg = SubSeq(github_ref, 2, Len(github_ref))
            /\ calls[6].arg = calls[5].ret
            /\ Head(calls[7].arg) = "v"
            /\ LStrip(calls[7].arg, "v")
                  = LStrip(SubSeq(github_ref, 2, Len(github_ref)), "v")
            /\ outcome = "Done"
            /\ exit_code = 0

C3_Witness ==
    /\ handler = "handle_tag_push"
    /\ outcome = "Done"
    /\ Ops = TagPushSequence
    /\ calls[1].status = 404

\* C4: publish is requested only after the merge of the same invocation was
\* answered 200; a merge answered anything else ends the run in
\* Aborted(MergeFailed) with a non-zero exit code and no publish request.
C4_PublishOnlyAfterMerge200 ==
    /\ \A i \in 1..Len(calls) :
        calls[i].op = "create_release" =>
            \E j \in 1..(i - 1) :
                calls[j].op = "merge_pr" /\ calls[j].status = 200
    /\ \A j \in 1..Len(calls) :
        (calls[j].op = "merge_pr" /\ calls[j].status # 200) =>
            /\ outcome = "Aborted"
            /\ reason = "MergeFailed"
            /\ exit_code # 0
            /\ ~Requested("create_release")

C4_Witness ==
    /\ Requested("merge_pr")
    /\ calls[Len(calls)].op = "merge_pr"
    /\ calls[Len(calls)].status = 201
    /\ outcome = "Aborted"

\* ------------------------------------------------------ version precedence
\* The grammar of a semantic version: three numbers of ASCII digits without
\* leading zero, then optionally a hyphen and dot-separated pre-release
\* identifiers, then optionally a plus and dot-separated build identifiers,
\* and nothing else.
SemverNumber(s) ==
    /\ s # <<>>
    /\ \A i \in 1..Len(s) : IsDigit(s[i])
    /\ Len(s) = 1 \/ s[1] # "0"

SemverIdentifier(s) == s # <<>> /\ \A i \in 1..Len(s) : IsAlnum(s[i])

ValidSemver(s) ==
    LET parts == VersionParts(s)
        nums  == Split(parts.core, ".")
        pre   == Split(parts.prerelease, ".")
        build == Split(parts.build, ".")
    IN  /\ Len(nums) = 3
        /\ \A i \in 1..3 : SemverNumber(nums[i])
        /\ parts.prerelease # None =>
               \A i \in 1..Len(pre) :
                   /\ SemverIdentifier(pre[i])
                   /\ (\A j \in 1..Len(pre[i]) : IsDigit(pre[i][j]))
                          => SemverNumber(pre[i])
        /\ parts.build # None =>
               \A i \in 1..Len(build) : SemverIdentifier(build[i])

\* A string is a well-formed version when, its leading v's removed, it is
\* a semantic version.
WellFormed(s) == ValidSemver(LStrip(s, "v"))

\* The version validate_version reads from a string.
Parsed(s) == Parse(LStrip(s, "v"))

\* Semantic-version precedence of two parsed versions: v is strictly greater
\* than w by (major, minor, patch), or on equal triples when w is a
\* pre-release and v is the final release or a later pre-release.
SemverGreater(v, w) ==
    \/ v.major > w.major
    \/ v.major = w.major /\ v.minor > w.minor
    \/ v.major = w.major /\ v.minor = w.minor /\ v.patch > w.patch
    \/ /\ v.major = w.major /\ v.minor = w.minor /\ v.patch = w.patch
       /\ w.prerelease # None
       /\ v.prerelease = None \/ NatCmp(v.prerelease, w.prerelease) > 0

Greater(a, b) ==
    Parsed(a).ok /\ Parsed(b).ok /\ SemverGreater(Parsed(a), Parsed(b))

\* The releases the forge held when this run's publish request was made.
ReleasesAtPublish ==
    IF \E i \in 1..Len(calls) :
          calls[i].op = "create_release" /\ calls[i].status = 201
    THEN SubSeq(releases, 1, Len(releases) - 1)
    ELSE releases

\* C5 as stated: publish is never requested for a candidate that is not
\* strictly greater than the latest release the forge holds at the time of
\* the run, on the pull-request path as on the tag-push path, so that no
\* version is requested for publication a second time.
C5_PublishOnlyAboveForgeLatest ==
    (Requested("create_release") /\ ReleasesAtPublish # <<>>) =>
        Greater(new_version, ReleasesAtPublish[Len(ReleasesAtPublish)])

\* C5 amended: publish is never requested for a candidate that is not
\* strictly greater than the baseline of its run; on the tag-push path the
\* baseline is the forge's answer to the latest-release query (0.0.0 when it
\* holds no release), on the pull-request path it is the supplied
\* main_version, whatever the forge holds.
C5_PublishOnlyAboveRunBaseline ==
    Requested("create_release") =>
        /\ Greater(new_version, old_version)
        /\ handler = "handle_pull_request" =>
            new_version = pr_version /\ old_version = main_version
        /\ handler = "handle_tag_push" =>
            /\ calls[1].op = "get_latest_release_version"
            /\ old_version = calls[1].ret
            /\ calls[1].status = 404 => old_version = Ver(<<>>, 0, 0, 0, <<>>)

C5_Witness ==
    /\ run = 2
    /\ handler = "handle_tag_push"
    /\ Requested("create_release")
    /\ ReleasesAtPublish # <<>>

\* C6: the exit code is 0 exactly when the run completed every step of its
\* handler, or was a clean no-op: an unsupported event kind, a push of a ref
\* that is no tag ref, or a pull-request creation refused as a duplicate.
\* Every failed check, missing parameter and failed forge request ends with
\* a non-zero exit code.
CompletedHandler ==
    /\ handler # "none"
    /\ AllOk
    /\ Ops = IF handler = "handle_pull_request" THEN PullRequestSequence
             ELSE TagPushSequence

CleanNoOp ==
    \/ event \notin {"pull_request", "push"} /\ calls = <<>>
    \/ event = "push" /\ calls = <<>>
          /\ (github_ref = None \/ github_ref = <<>>
                \/ Head(github_ref) # "refs/tags/")
    \/ /\ calls # <<>>
       /\ calls[Len(calls)].op = "create_pr"
       /\ calls[Len(calls)].status # 201
       /\ calls[Len(calls)].out = "duplicate"

C6_ExitCode ==
    Terminated =>
        /\ exit_code = 0 <=> (CompletedHandler \/ CleanNoOp)
        /\ exit_code \in {0, 1}
        /\ reason \in ValidationFailures
              \cup {"MissingParameters", "ForgeRequestFailed",
                    "PrCreateFailed", "MergeFailed", "PublishFailed"}
              => exit_code # 0
        /\ (event = "pull_request"
              /\ (pr_version \in {None, <<>>} \/ main_version \in {None, <<>>}
                    \/ pr_number \in {None, <<>>})) => exit_code # 0
        /\ \A i \in 1..Len(calls) :
              calls[i].out \notin {"ok", "duplicate"} => exit_code # 0

C6_Witness ==
    /\ Terminated
    /\ exit_code = 0
    /\ reason = "PrExists"
    /\ calls[Len(calls)].status = 422

\* C7: on the tag-push path a pull-request creation answered with the
\* duplicate report stops the run with exit code 0; neither merge nor
\* publish is requested and no further request looks the pull request up.
C7_DuplicatePrStopsCleanly ==
    \A i \in 1..Len(calls) :
        (calls[i].op = "create_pr" /\ calls[i].out = "duplicate") =>
            /\ handler = "handle_tag_push"
            /\ Terminated
            /\ exit_code = 0
            /\ ~Requested("merge_pr")
            /\ ~Requested("create_release")
            /\ i = Len(calls)
            /\ Count("create_pr") = 1
            /\ pr_num = None

C7_Witness ==
    /\ handler = "handle_tag_push"
    /\ Requested("create_pr")
    /\ calls[Len(calls)].out = "duplicate"
    /\ calls[Len(calls)].status = 422
    /\ exit_code = 0

\* C8: the checks run in the order version, metadata, style and stop at the
\* first failure: a failed version check leaves the metadata check and the
\* linter unrun, a missing metadata file leaves the linter unrun, and the
\* reason reported is that of the first failed check.
CheckOps == SelectSeq(Ops, LAMBDA op : op \in Checks)

C8_ChecksInOrderShortCircuit ==
    /\ IsPrefix(CheckOps,
          <<"validate_version", "validate_library_metadata",
            "validate_code_style">>)
    /\ \A i \in 1..Len(calls) :
        (calls[i].op \in Checks /\ calls[i].out # "ok") =>
            /\ i = Len(calls)
            /\ reason = calls[i].out
            /\ outcome = "Aborted"
    /\ \A i \in 1..Len(calls) :
        (calls[i].op = "validate_version" /\ calls[i].out # "ok") =>
            /\ ~Requested("validate_library_metadata")
            /\ ~Requested("validate_code_style")
    /\ \A i \in 1..Len(calls) :
        (calls[i].op = "validate_library_metadata" /\ calls[i].out # "ok") =>
            /\ ~Requested("validate_code_style")
            /\ OkBefore("validate_version", i)
    /\ (new_version # None /\ old_version # None
          /\ ~Greater(new_version, old_version) /\ Terminated) =>
            /\ ~Requested("validate_library_metadata")
            /\ ~Requested("validate_code_style")
            /\ reason \in {"InvalidVersion", "VersionNotAdvanced"}

C8_Witness ==
    /\ Terminated
    /\ reason = "MissingMetadata"
    /\ Count("validate_version") = 1
    /\ Count("validate_code_style") = 0

\* C9 as stated: the version check of two well-formed versions passes
\* exactly when the new one is strictly greater under semantic-version
\* precedence and fails with VersionNotAdvanced otherwise; with a malformed
\* string on either side it fails with InvalidVersion, through the handled
\* exit with code 1. The parser takes some malformed strings for versions,
\* a version followed by one line feed among them, and the check passes.
VersionChecked ==
    calls # <<>> /\ calls[Len(calls)].op = "validate_version"

C9_VersionCheck ==
    VersionChecked =>
        IF WellFormed(new_version) /\ WellFormed(old_version)
        THEN IF SemverGreater(Parsed(new_version), Parsed(old_version))
             THEN /\ calls[Len(calls)].out = "ok"
                  /\ outcome = "Running"
                  /\ Stmt = "validate_library_metadata"
                  /\ exit_code = -1
             ELSE /\ calls[Len(calls)].out = "VersionNotAdvanced"
                  /\ outcome = "Aborted"
                  /\ reason = "VersionNotAdvanced"
                  /\ exit_code = 1
        ELSE /\ calls[Len(calls)].out = "InvalidVersion"
             /\ outcome = "Aborted"
             /\ reason = "InvalidVersion"
             /\ exit_code = 1

\* The latest-release query of this run was answered 404.
NoReleaseReported ==
    /\ calls # <<>>
    /\ calls[1].op = "get_latest_release_version"
    /\ calls[1].status = 404

\* C10 as stated: when the forge reports no release, the query returns 0.0.0
\* and the pushed tag, whatever well-formed version it names, passes the
\* version check.
C10_FirstTagAlwaysPasses ==
    (NoReleaseReported /\ Len(calls) >= 2 /\ WellFormed(new_version)) =>
        /\ calls[1].ret = Ver(<<>>, 0, 0, 0, <<>>)
        /\ calls[2].out = "ok"

\* C10 amended: when the forge reports no release, the query returns 0.0.0
\* without failing, and the pushed tag of a well-formed version passes the
\* version check exactly when that version is greater than 0.0.0: 0.0.0
\* itself and the pre-releases of 0.0.0 fail with VersionNotAdvanced.
C10_FirstTagPassesAboveSentinel ==
    NoReleaseReported =>
        /\ calls[1].out = "ok"
        /\ calls[1].ret = Ver(<<>>, 0, 0, 0, <<>>)
        /\ old_version = Ver(<<>>, 0, 0, 0, <<>>)
        /\ Len(calls) = 1 => outcome = "Running" /\ Stmt = "validate_version"
        /\ (Len(calls) >= 2 /\ WellFormed(new_version)) =>
            /\ calls[2].op = "validate_version"
            /\ calls[2].out =
                  IF Parsed(new_version).major > 0
                        \/ Parsed(new_version).minor > 0
                        \/ Parsed(new_version).patch > 0
                  THEN "ok" ELSE "VersionNotAdvanced"

C10_Witness ==
    /\ NoReleaseReported
    /\ Len(calls) = 2
    /\ new_version = Ver(<<"v">>, 0, 0, 1, <<>>)
    /\ calls[2].out = "ok"

\* A well-formed version string carries a pre-release label when a hyphen
\* follows the three numbers, before any build part.
HasPrereleaseLabel(s) ==
    LET p    == IndexOf(s, "+")
        head == IF p = 0 THEN s ELSE SubSeq(s, 1, p - 1)
    IN  IndexOf(head, "-") # 0

\* C11: a pre-release candidate strictly greater than the baseline passes the
\* version check with the warning and is not stopped by it; once the other
\* steps succeed it is merged and published like a final version, and every
\* publish request is marked prerelease exactly when its candidate carries a
\* pre-release label.
C11_PrereleaseWarnsAndPublishes ==
    /\ \A i \in 1..Len(calls) :
        (calls[i].op = "validate_version"
            /\ HasPrereleaseLabel(new_version)
            /\ Greater(new_version, old_version)) =>
            /\ calls[i].out = "ok"
            /\ calls[i].flag
            /\ reason \notin {"InvalidVersion", "VersionNotAdvanced"}
            /\ (Terminated /\ AllOk) =>
                /\ outcome = "Done"
                /\ Ops = IF handler = "handle_pull_request"
                         THEN PullRequestSequence ELSE TagPushSequence
    /\ \A i \in 1..Len(calls) :
        (calls[i].op = "validate_version" /\ calls[i].out = "ok") =>
            (calls[i].flag <=> HasPrereleaseLabel(new_version))
    /\ \A i \in 1..Len(calls) :
        calls[i].op = "create_release" =>
            (calls[i].flag <=> HasPrereleaseLabel(new_version))

C11_Witness ==
    /\ outcome = "Done"
    /\ Requested("create_release")
    /\ new_version = Ver(<<>>, 1, 1, 0, <<"-", "r", "c">>)
    /\ calls[Len(calls)].flag
    /\ calls[Len(calls)].status = 201

\* The ref is absent, empty, or does not start with refs/tags/.
NotATagRef == github_ref \in {None, <<>>} \/ Head(github_ref) # "refs/tags/"

\* C12: on a push whose ref is absent or is no tag ref, no check is run and
\* no forge request is made, the latest-release query included; the handler
\* reads nothing further and the run ends Done with exit code 0.
C12_NonTagPushIsNoOp ==
    (event = "push" /\ NotATagRef) =>
        /\ calls = <<>>
        /\ new_version = None
        /\ old_version = None
        /\ pr_num = None
        /\ Stmt \in {"none", "check_ref"}
        /\ outcome # "Aborted"
        /\ Terminated => outcome = "Done" /\ exit_code = 0
        /\ run = 1 => releases = <<>>

C12_Witness ==
    /\ event = "push"
    /\ github_ref = BranchRef
    /\ handler = "handle_tag_push"
    /\ outcome = "Done"
    /\ exit_code = 0

\* C13: for an event kind other than pull_request and push no handler is
\* selected, no check is run and no forge request is made; the run goes
\* straight to Done with exit code 0 and is never aborted.
C13_UnsupportedEventIsNoOp ==
    event \notin {"pull_request", "push"} =>
        /\ handler = "none"
        /\ ip = 0
        /\ calls = <<>>
        /\ new_version = None
        /\ old_version = None
        /\ pr_num = None
        /\ outcome # "Aborted"
        /\ Terminated => outcome = "Done" /\ exit_code = 0 /\ reason = ""
        /\ run = 1 => releases = <<>>

C13_Witness ==
    /\ event = "workflow_dispatch"
    /\ outcome = "Done"
    /\ exit_code = 0
    /\ run = 2
    /\ releases # <<>>

\* C14: on the pull-request path with candidate version, baseline version or
\* pull-request id absent or empty, the run ends in
\* Aborted(MissingParameters) with a non-zero exit code before any check is
\* run and before any forge request is made.
SomeParamMissing ==
    \/ pr_version \in {None, <<>>}
    \/ main_version \in {None, <<>>}
    \/ pr_number \in {None, <<>>}

C14_MissingParametersAbort ==
    (event = "pull_request" /\ SomeParamMissing) =>
        /\ calls = <<>>
        /\ Stmt \in {"none", "check_params"}
        /\ outcome # "Done"
        /\ Terminated =>
            /\ outcome = "Aborted"
            /\ reason = "MissingParameters"
            /\ exit_code # 0
        /\ run = 1 => releases = <<>>

C14_Witness ==
    /\ event = "pull_request"
    /\ pr_version = Ver(<<>>, 1, 0, 0, <<>>)
    /\ main_version = Ver(<<>>, 0, 0, 0, <<>>)
    /\ pr_number = <<>>
    /\ outcome = "Aborted"
    /\ reason = "MissingParameters"

\* The answer of the forge, or the result of the check, at position i of
\* the call record is a failure.
Failed(i) ==
    IF calls[i].op \in Checks THEN calls[i].out # "ok"
    ELSE IF calls[i].op = "get_latest_release_version"
         THEN calls[i].status \notin {200, 404}
    ELSE IF calls[i].op = "merge_pr" THEN calls[i].status # 200
    ELSE calls[i].status # 201

\* C15: nothing is retried and every error is terminal: within one
\* invocation each forge operation and each check is made at most once, and
\* a failed check or forge request is the last call of the run, which has
\* ended in Aborted.
C15_NoRetryFirstFailureEnds ==
    /\ \A op \in {"get_latest_release_version", "create_pr", "merge_pr",
                  "create_release"} \cup Checks : Count(op) <= 1
    /\ \A i \in 1..Len(calls) :
        Failed(i) =>
            /\ i = Len(calls)
            /\ outcome = "Aborted"

C15_Witness ==
    /\ Len(calls) = 6
    /\ calls[6].op = "merge_pr"
    /\ calls[6].status = 500
    /\ outcome = "Aborted"

\* C16: when the merge succeeded and the publish request is answered
\* anything but 201, the run ends in Aborted(PublishFailed) with a non-zero
\* exit code; the pull request stays merged, this run has published no
\* release, and no request follows the failed one.
C16_PublishFailureAfterMerge ==
    \A i \in 1..Len(calls) :
        (calls[i].op = "create_release" /\ calls[i].status # 201) =>
            /\ outcome = "Aborted"
            /\ reason = "PublishFailed"
            /\ exit_code # 0
            /\ i = Len(calls)
            /\ calls[i - 1].op = "merge_pr"
            /\ calls[i - 1].status = 200
            /\ Count("merge_pr") = 1
            /\ Count("create_release") = 1
            /\ ReleasesAtPublish = releases

C16_Witness ==
    /\ handler = "handle_pull_request"
    /\ Len(calls) = 5
    /\ calls[4].status = 200
    /\ calls[5].op = "create_release"
    /\ calls[5].status = 200
    /\ reason = "PublishFailed"

\* C17 as stated: the clean PrExists stop happens only on a 422 answer whose
\* body names the duplicate; every other answer but 201, whatever its body,
\* exits non-zero; no merge or publish follows either.
C17_PrExistsOnlyOn422 ==
    \A i \in 1..Len(calls) :
        (calls[i].op = "create_pr" /\ calls[i].status # 201) =>
            /\ Terminated
            /\ exit_code = 0 <=>
                  (calls[i].status = 422 /\ calls[i].out = "duplicate")
            /\ ~Requested("merge_pr")
            /\ ~Requested("create_release")

\* C17 amended: the clean PrExists stop happens exactly when an answer other
\* than 201 has a body that names the duplicate, whatever its status; every
\* answer other than 201 without it exits non-zero; no merge or publish
\* follows either.
C17_PrExistsOnDuplicateBody ==
    \A i \in 1..Len(calls) :
        (calls[i].op = "create_pr" /\ calls[i].status # 201) =>
            /\ Terminated
            /\ outcome = "Aborted"
            /\ exit_code = 0 <=> calls[i].out = "duplicate"
            /\ exit_code = 0 <=> reason = "PrExists"
            /\ exit_code # 0 <=> reason = "PrCreateFailed"
            /\ i = Len(calls)
            /\ ~Requested("merge_pr")
            /\ ~Requested("create_release")

C17_Witness ==
    /\ Requested("create_pr")
    /\ calls[Len(calls)].op = "create_pr"
    /\ calls[Len(calls)].status = 500
    /\ calls[Len(calls)].out = "duplicate"
    /\ exit_code = 0

\* ------------------------------------------------------ orchestrator state
\* The state of the orchestrator, read off the statement the run is at: the
\* dispatch, the parameter and ref tests and the latest-release query are
\* Start, the three checks Validating, opening and merging the pull request
\* Merging, creating the release Publishing.
Phase ==
    IF outcome # "Running" THEN outcome
    ELSE IF Stmt \in Checks THEN "Validating"
    ELSE IF Stmt \in {"create_pr", "merge_pr"} THEN "Merging"
    ELSE IF Stmt = "create_release" THEN "Publishing"
    ELSE "Start"

Rank(phase) ==
    CASE phase = "Start" -> 0
      [] phase = "Validating" -> 1
      [] phase = "Merging" -> 2
      [] phase = "Publishing" -> 3
      [] phase \in {"Done", "Aborted"} -> 4

\* A step of the running process: every action but the start of the next
\* invocation.
Step ==
    \/ Main
    \/ CheckParams
    \/ CheckRef
    \/ GetLatestReleaseVersion
    \/ ValidateVersion
    \/ ValidateLibraryMetadata
    \/ ValidateCodeStyle
    \/ CreatePr
    \/ MergePr
    \/ CreateRelease

\* The process is single-threaded and every call it makes returns, so a
\* running invocation always takes its next step.
SpecLive == Init /\ [][Next]_vars /\ WF_vars(Step)

\* C18: every invocation eventually ends in Done or Aborted; within an
\* invocation the orchestrator state never moves back along Start,
\* Validating, Merging, Publishing, terminal, and a terminal state is left
\* only by the start of the next invocation.
C18_TerminatesForwardOnly ==
    /\ \A r \in 1..MaxRuns :
        (run = r /\ outcome = "Running") ~> (run = r /\ Terminated)
    /\ [][ /\ run' = run => Rank(Phase') >= Rank(Phase)
           /\ Terminated => run' = run + 1 /\ outcome' = "Running" ]_vars

C18_Witness ==
    /\ handler = "handle_tag_push"
    /\ Phase = "Done"
    /\ Len(calls) = 7
    /\ run = MaxRuns

\* C19: on the tag-push path, when the latest-release query is answered with
\* an error status other than 404, the run ends in Aborted with the request
\* failure as its reason and a non-zero exit code; the query is the only call
\* of the run: no check has run and no forge mutation has been requested.
C19_LatestQueryFailureAborts ==
    \A i \in 1..Len(calls) :
        (/\ calls[i].op = "get_latest_release_version"
         /\ calls[i].status >= 400
         /\ calls[i].status # StatusNotFound) =>
            /\ handler = "handle_tag_push"
            /\ outcome = "Aborted"
            /\ reason = "ForgeRequestFailed"
            /\ exit_code # 0
            /\ Len(calls) = 1
            /\ \A op \in Checks \cup Mutations : ~Requested(op)

C19_Witness ==
    /\ Len(calls) = 1
    /\ calls[1].op = "get_latest_release_version"
    /\ calls[1].status = 500
    /\ outcome = "Aborted"
    /\ exit_code = 1
    /\ releases # <<>>

====
